---- MODULE Spec2Model ----
(***************************************************************************)
(* A model of librespeed's command line entry point, librespeed/cli.py:    *)
(* cli() fetches the server list (with one retry), then either lists the   *)
(* servers, or tests the allow-listed servers, or pings every candidate    *)
(* host, ranks the hosts and tests the servers of the best one.            *)
(*                                                                         *)
(* cli.py is the only module of the package modelled from its code.  The   *)
(* modules it calls (librespeed.core, librespeed.ping, librespeed.errors)  *)
(* are modelled from the written specification; every such definition is   *)
(* marked "modelled from the specification" below.                         *)
(***************************************************************************)
EXTENDS Integers, Sequences, FiniteSets

VARIABLES
    args,            \* the namespace parse_args() returns
    remote,          \* the server list the provider would return unfiltered
    down,            \* the hosts (netlocs) no transfer worker can connect to
    pc,              \* the position of cli()
    error,           \* the exception that ended the run ("" when none)
    fetchLog,        \* the calls of get_remote_servers, in order
    server_list,     \* cli()'s server_list
    printed,         \* the lines printed by --list
    pingLog,         \* the calls of do_icmp_ping (their arguments)
    rankCalls,       \* how often order_ping_results_by_rtt was called
    results,         \* cli()'s results (ping samples, then the ranking, then the report)
    fastest_domain,  \* cli()'s fastest_domain
    fastest_servers, \* cli()'s fastest_servers
    speedLog,        \* the calls of do_speed_test (their arguments)
    worker_count,    \* the Sampler's worker count for this speed test
    queue,           \* do_speed_test: the servers still to test
    current,         \* do_speed_test: the download outcome of the server under test
    phases,          \* do_speed_test: every measurement phase, in order
    report           \* do_speed_test: the per-server results

vars == <<args, remote, down, pc, error, fetchLog, server_list, printed, pingLog,
          rankCalls, results, fastest_domain, fastest_servers, speedLog,
          worker_count, queue, current, phases, report>>

-----------------------------------------------------------------------------
(* Bounds of the model.                                                    *)

MaxServers == 3      \* the longest server list the provider returns
MaxRtt == 2          \* round trip times are 1..MaxRtt
MaxWorkers == 2      \* the largest Sampler worker count

\* --concurrent's default
DefaultConcurrent == 3

\* probes per host (modelled from the specification, 4.1 attempts_per_host)
AttemptsPerHost == 2

-----------------------------------------------------------------------------
(* Sequences.                                                              *)

Range(s) == {s[i] : i \in 1..Len(s)}

RECURSIVE Dedup(_)
\* s without repeated elements, each kept at its first place
Dedup(s) ==
    IF s = <<>> THEN <<>>
    ELSE LET d == Dedup(SubSeq(s, 1, Len(s) - 1))
         IN IF s[Len(s)] \in Range(d) THEN d ELSE Append(d, s[Len(s)])

RECURSIVE IsSubsequence(_, _)
\* a is b with some elements left out, order kept
IsSubsequence(a, b) ==
    IF a = <<>> THEN TRUE
    ELSE IF b = <<>> THEN FALSE
    ELSE IF Head(a) = Head(b) THEN IsSubsequence(Tail(a), Tail(b))
    ELSE IsSubsequence(a, Tail(b))

-----------------------------------------------------------------------------
(* Server URLs and urllib.parse.urlsplit(url).netloc.  A URL is a sequence *)
(* of tokens: an optional scheme ("http:"), then "//" and the network      *)
(* location (host and optional port), then the path.                       *)

SchemeTokens == {"http:", "https:"}
PathTokens == {"/x"}

RECURSIVE SplitNetloc(_)
\* the tokens up to the first path delimiter
SplitNetloc(r) ==
    IF r = <<>> \/ Head(r) \in PathTokens THEN <<>>
    ELSE <<Head(r)>> \o SplitNetloc(Tail(r))

\* urlsplit(url).netloc: empty unless "//" follows the scheme
Netloc(url) ==
    LET r == IF url # <<>> /\ Head(url) \in SchemeTokens THEN Tail(url) ELSE url
    IN IF r # <<>> /\ Head(r) = "//" THEN SplitNetloc(Tail(r)) ELSE <<>>

\* The server records a provider may list: two on host a, one on b:80 and one
\* whose URL has no "//", so that its netloc is empty.
ServerA1 ==
    [name |-> "A1", server |-> <<"http:", "//", "a", "/x">>,
     sponsorName |-> "Acme", sponsorURL |-> "acme.example"]
ServerA2 ==
    [name |-> "A2", server |-> <<"//", "a">>,
     sponsorName |-> "Acme", sponsorURL |-> ""]
ServerB ==
    [name |-> "B", server |-> <<"https:", "//", "b", ":80", "/x">>,
     sponsorName |-> "", sponsorURL |-> "b.example"]
ServerC ==
    [name |-> "C", server |-> <<"c", "/x">>,
     sponsorName |-> "", sponsorURL |-> ""]

ServerRecords == {ServerA1, ServerA2, ServerB, ServerC}

WithId(r, i) ==
    [id |-> i, name |-> r.name, server |-> r.server,
     sponsorName |-> r.sponsorName, sponsorURL |-> r.sponsorURL]

\* the provider's lists: server i of a list has id i
Catalogs ==
    UNION { { [i \in 1..n |-> WithId(f[i], i)] : f \in [1..n -> ServerRecords] }
            : n \in 0..MaxServers }

Hosts(servers) == {Netloc(servers[i].server) : i \in 1..Len(servers)}

-----------------------------------------------------------------------------
(* parse_args().  --server and --exclude take one or more ids (nargs="+"), *)
(* so each is absent (the empty set here) or non-empty; nothing in         *)
(* parse_args relates the two.  --concurrent takes any integer.            *)

AllowChoices == {{}, {1}, {1, 3}}
DenyChoices == {{}, {1}}

ArgsOf(list, allow, deny, https, nodl, noul, conc) ==
    [show_server_list |-> list, server_id_allow_list |-> allow,
     server_id_deny_list |-> deny, force_https |-> https,
     no_download |-> nodl, no_upload |-> noul, concurrent |-> conc]

\* every selection option, the measurement options left at their defaults
SelectionArgs ==
    {ArgsOf(l, a, d, FALSE, FALSE, FALSE, DefaultConcurrent) :
        l \in BOOLEAN, a \in AllowChoices, d \in DenyChoices}

\* every option
AllArgs ==
    {ArgsOf(l, a, d, h, nd, nu, c) :
        l \in BOOLEAN, a \in AllowChoices, d \in DenyChoices, h \in BOOLEAN,
        nd \in BOOLEAN, nu \in BOOLEAN, c \in {0, DefaultConcurrent}}

-----------------------------------------------------------------------------
(* cli(): the pure parts.                                                  *)

NoFilters == [server_allow_list |-> {}, server_deny_list |-> {}]

\* a faulty variant of ServerFilters: the filters are passed in list mode too
ServerFiltersInListMode ==
    [server_allow_list |-> args.server_id_allow_list,
     server_deny_list |-> args.server_id_deny_list]

\* server_filters: none in list mode
ServerFilters ==
    IF args.show_server_list THEN NoFilters
    ELSE [server_allow_list |-> args.server_id_allow_list,
          server_deny_list |-> args.server_id_deny_list]

\* the keyword arguments of the first get_remote_servers call
FirstCall ==
    [force_https |-> args.force_https, retry |-> FALSE, filters |-> ServerFilters]

\* a faulty variant of RetryCall: the retry forgets the filters
RetryCallWithoutFilters ==
    [force_https |-> args.force_https, retry |-> TRUE, filters |-> NoFilters]

\* the keyword arguments of the second get_remote_servers call
RetryCall ==
    [force_https |-> args.force_https, retry |-> TRUE, filters |-> ServerFilters]

\* the exceptions of the first call that lead to the second
Retryable == {"HttpError"}

\* a faulty variant of UseAllowList: the branch tests the deny-list
UseDenyList == args.server_id_deny_list # {}

\* if args.server_id_allow_list:
UseAllowList == args.server_id_allow_list # {}

\* the argument of do_icmp_ping: every candidate's netloc, in list order
PingHosts(servers) == [i \in 1..Len(servers) |-> Netloc(servers[i].server)]

\* a faulty variant of FastestDomain: the last entry of the ranking
SlowestDomain(ranked) == ranked[Len(ranked)].domain

\* results[0]["domain"]
FastestDomain(ranked) == ranked[1].domain

\* a faulty variant of FastestServers: only the first server of the domain
FirstFastestServer(servers, domain) ==
    LET all == SelectSeq(servers, LAMBDA s : Netloc(s.server) = domain)
    IN IF all = <<>> THEN <<>> ELSE <<Head(all)>>

\* [s for s in server_list if urlsplit(s["server"]).netloc == fastest_domain]
FastestServers(servers, domain) ==
    SelectSeq(servers, LAMBDA s : Netloc(s.server) = domain)

\* the sponsor text of a --list line
Sponsor(s) ==
    LET named == s.sponsorName
        full == IF named # "" /\ s.sponsorURL # ""
                THEN <<named, " @ ", s.sponsorURL>>
                ELSE IF named # "" THEN <<named>> ELSE <<>>
    IN IF full # <<>> THEN <<"[Sponsor: ">> \o full \o <<"]">> ELSE <<>>

\* "{id}: {name} ({server}) {sponsor}"
ListLine(s) ==
    [id |-> s.id, name |-> s.name, server |-> s.server, sponsor |-> Sponsor(s)]

\* do_speed_test is called with the servers and nothing else: no option of
\* the command line reaches it, and it runs with its own defaults
SpeedTestOptions == [download |-> TRUE, upload |-> TRUE]

-----------------------------------------------------------------------------
(* librespeed.core.get_remote_servers, modelled from the specification:    *)
(* "a simple HTTP GET + JSON parse + allow/deny-list filter" that "may     *)
(* raise a retryable connectivity error".                                  *)

FetchOutcomes == {"ok", "HttpError", "Error"}

GetRemoteServers(filters) ==
    SelectSeq(remote,
              LAMBDA s :
                  /\ filters.server_allow_list # {} => s.id \in filters.server_allow_list
                  /\ s.id \notin filters.server_deny_list)

-----------------------------------------------------------------------------
(* librespeed.ping, modelled from the specification (4.1, 4.2).            *)

FailedSample == [ok |-> FALSE, rtt |-> 0]
Samples == {FailedSample} \cup {[ok |-> TRUE, rtt |-> r] : r \in 1..MaxRtt}
SampleSeqs == [1..AttemptsPerHost -> Samples]

AllFailed(samples) == \A i \in 1..Len(samples) : ~samples[i].ok

\* do_icmp_ping: the samples of every host probed, hosts in candidate order;
\* any probe may fail
ProbeOutcomes(hosts) ==
    LET hs == Dedup(hosts)
    IN { [i \in 1..Len(hs) |-> [domain |-> hs[i], samples |-> f[i]]] :
           f \in [1..Len(hs) -> SampleSeqs] }

\* the representative latency: the minimum successful round trip time
MinRtt(samples) ==
    LET ok == {samples[i].rtt : i \in {j \in 1..Len(samples) : samples[j].ok}}
    IN CHOOSE m \in ok : \A r \in ok : m <= r

RECURSIVE InsertRanked(_, _)
\* e put behind every entry that is not slower than it
InsertRanked(e, sorted) ==
    IF sorted = <<>> THEN <<e>>
    ELSE IF e.rtt < Head(sorted).rtt THEN <<e>> \o sorted
    ELSE <<Head(sorted)>> \o InsertRanked(e, Tail(sorted))

RECURSIVE RankFrom(_, _)
RankFrom(probed, sorted) ==
    IF probed = <<>> THEN sorted
    ELSE IF AllFailed(Head(probed).samples) THEN RankFrom(Tail(probed), sorted)
    ELSE RankFrom(Tail(probed),
                  InsertRanked([domain |-> Head(probed).domain,
                                rtt |-> MinRtt(Head(probed).samples)], sorted))

\* order_ping_results_by_rtt: the hosts with a successful sample, best first
OrderPingResultsByRtt(probed) == RankFrom(probed, <<>>)

-----------------------------------------------------------------------------
(* librespeed.core.do_speed_test, modelled from the specification (4.4,    *)
(* 4.5): per server the download Sampler, then the upload Sampler.         *)

\* the workers that start: none against a host that is down
StartedWorkers(server, count) == IF Netloc(server.server) \in down THEN 0 ELSE count

\* a faulty variant of Measure: no worker started reports a throughput of zero
MeasureZeroFilled(server, direction, count) ==
    LET started == StartedWorkers(server, count)
    IN [id |-> server.id, direction |-> direction, outcome |-> "ok",
        worker_count |-> count, started |-> started, bps |-> 8 * started]

\* measure: a connectivity error when no worker started, else a result
Measure(server, direction, count) ==
    LET started == StartedWorkers(server, count)
    IN IF started = 0
       THEN [id |-> server.id, direction |-> direction, outcome |-> "ConnectivityError",
             worker_count |-> count, started |-> 0, bps |-> 0]
       ELSE [id |-> server.id, direction |-> direction, outcome |-> "ok",
             worker_count |-> count, started |-> started, bps |-> 8 * started]

Skipped(server, direction) ==
    [id |-> server.id, direction |-> direction, outcome |-> "skipped",
     worker_count |-> worker_count, started |-> 0, bps |-> 0]

\* a direction's entry of the result: the figure, or why there is none
Entry(phase) ==
    IF phase.outcome = "ok" THEN [status |-> "ok", bps |-> phase.bps]
    ELSE IF phase.outcome = "omitted" THEN [status |-> "omitted", bps |-> 0]
    ELSE [status |-> "unavailable", bps |-> 0]

Omitted(server, direction) ==
    [id |-> server.id, direction |-> direction, outcome |-> "omitted",
     worker_count |-> worker_count, started |-> 0, bps |-> 0]

NoPhase == [id |-> 0, direction |-> "none", outcome |-> "none",
            worker_count |-> 0, started |-> 0, bps |-> 0]

-----------------------------------------------------------------------------
(* The initial states: the arguments and the provider's list.  The         *)
(* selection options are combined with every list of up to MaxServers      *)
(* servers; the measurement options, which select nothing, are combined    *)
(* with the selection options on one list.  Which hosts accept no          *)
(* connection, and the Sampler's worker count, show when the speed test    *)
(* starts.                                                                 *)

OptionsCatalog == <<WithId(ServerA1, 1), WithId(ServerB, 2)>>

InitRun ==
    /\ pc = "start"
    /\ error = ""
    /\ down = {}
    /\ fetchLog = <<>>
    /\ server_list = <<>>
    /\ printed = <<>>
    /\ pingLog = <<>>
    /\ rankCalls = 0
    /\ results = <<>>
    /\ fastest_domain = <<>>
    /\ fastest_servers = <<>>
    /\ speedLog = <<>>
    /\ worker_count = 0
    /\ queue = <<>>
    /\ current = NoPhase
    /\ phases = <<>>
    /\ report = <<>>

Init ==
    /\ \/ args \in SelectionArgs /\ remote \in Catalogs
       \/ args \in AllArgs /\ remote = OptionsCatalog
    /\ InitRun

-----------------------------------------------------------------------------
(* cli(), step by step.                                                    *)

Crash(e) == pc' = "crashed" /\ error' = e

\* server_list = get_remote_servers(force_https=..., **server_filters)
FetchServers ==
    /\ pc = "start"
    /\ \E o \in FetchOutcomes :
        /\ fetchLog' = Append(fetchLog, [call |-> FirstCall, outcome |-> o])
        /\ IF o = "ok"
           THEN /\ server_list' = GetRemoteServers(FirstCall.filters)
                /\ pc' = "fetched"
                /\ error' = error
           ELSE IF o \in Retryable
           THEN /\ pc' = "retry"
                /\ UNCHANGED <<server_list, error>>
           ELSE /\ Crash(o)
                /\ UNCHANGED server_list
    /\ UNCHANGED <<args, remote, down, printed, pingLog, rankCalls, results,
                   fastest_domain, fastest_servers, speedLog, worker_count, queue,
                   current, phases, report>>

\* except HttpError: server_list = get_remote_servers(..., retry=True, ...)
RetryFetch ==
    /\ pc = "retry"
    /\ \E o \in FetchOutcomes :
        /\ fetchLog' = Append(fetchLog, [call |-> RetryCall, outcome |-> o])
        /\ IF o = "ok"
           THEN /\ server_list' = GetRemoteServers(RetryCall.filters)
                /\ pc' = "fetched"
                /\ error' = error
           ELSE /\ Crash(o)
                /\ UNCHANGED server_list
    /\ UNCHANGED <<args, remote, down, printed, pingLog, rankCalls, results,
                   fastest_domain, fastest_servers, speedLog, worker_count, queue,
                   current, phases, report>>

\* if args.show_server_list: for server in server_list: print(...)
PrintServer ==
    /\ pc = "fetched"
    /\ args.show_server_list
    /\ Len(printed) < Len(server_list)
    /\ printed' = Append(printed, ListLine(server_list[Len(printed) + 1]))
    /\ UNCHANGED <<args, remote, down, pc, error, fetchLog, server_list, pingLog,
                   rankCalls, results, fastest_domain, fastest_servers, speedLog,
                   worker_count, queue, current, phases, report>>

\* ... return
ListReturn ==
    /\ pc = "fetched"
    /\ args.show_server_list
    /\ Len(printed) = Len(server_list)
    /\ pc' = "done"
    /\ UNCHANGED <<args, remote, down, error, fetchLog, server_list, printed,
                   pingLog, rankCalls, results, fastest_domain, fastest_servers,
                   speedLog, worker_count, queue, current, phases, report>>

\* a faulty variant of AllowedServers: the provider's whole list is tested
UnfilteredServers == remote

\* the servers the allow-list branch hands to do_speed_test
AllowedServers == server_list

\* the entry of do_speed_test(servers)
EnterSpeedTest(servers) ==
    /\ speedLog' = Append(speedLog, servers)
    /\ queue' = servers
    /\ worker_count' \in 0..MaxWorkers
    /\ down' \in SUBSET Hosts(servers)
    /\ pc' = "download"

\* if args.server_id_allow_list: do_speed_test(server_list)
TestAllowed ==
    /\ pc = "fetched"
    /\ ~args.show_server_list
    /\ UseAllowList
    /\ EnterSpeedTest(AllowedServers)
    /\ UNCHANGED <<args, remote, error, fetchLog, server_list, printed,
                   pingLog, rankCalls, results, fastest_domain, fastest_servers,
                   current, phases, report>>

\* else: results = do_icmp_ping([urlsplit(s["server"]).netloc for s in server_list])
Ping ==
    /\ pc = "fetched"
    /\ ~args.show_server_list
    /\ ~UseAllowList
    /\ pingLog' = Append(pingLog, PingHosts(server_list))
    /\ results' \in ProbeOutcomes(PingHosts(server_list))
    /\ pc' = "pinged"
    /\ UNCHANGED <<args, remote, down, error, fetchLog, server_list, printed,
                   rankCalls, fastest_domain, fastest_servers, speedLog,
                   worker_count, queue, current, phases, report>>

\* results = order_ping_results_by_rtt(results)
Rank ==
    /\ pc = "pinged"
    /\ results' = OrderPingResultsByRtt(results)
    /\ rankCalls' = rankCalls + 1
    /\ pc' = "ranked"
    /\ UNCHANGED <<args, remote, down, error, fetchLog, server_list, printed,
                   pingLog, fastest_domain, fastest_servers, speedLog,
                   worker_count, queue, current, phases, report>>

\* fastest_domain = results[0]["domain"]; fastest_servers = [...]
\* results[0] of an empty list raises IndexError, which nothing catches
SelectFastest ==
    /\ pc = "ranked"
    /\ IF results = <<>>
       THEN /\ Crash("IndexError")
            /\ UNCHANGED <<fastest_domain, fastest_servers>>
       ELSE /\ fastest_domain' = FastestDomain(results)
            /\ fastest_servers' = FastestServers(server_list, fastest_domain')
            /\ pc' = "selected"
            /\ error' = error
    /\ UNCHANGED <<args, remote, down, fetchLog, server_list, printed, pingLog,
                   rankCalls, results, speedLog, worker_count, queue, current,
                   phases, report>>

\* results = do_speed_test(fastest_servers)
TestFastest ==
    /\ pc = "selected"
    /\ EnterSpeedTest(fastest_servers)
    /\ UNCHANGED <<args, remote, error, fetchLog, server_list, printed,
                   pingLog, rankCalls, results, fastest_domain, fastest_servers,
                   current, phases, report>>

-----------------------------------------------------------------------------
(* do_speed_test, modelled from the specification (4.5): the servers in    *)
(* listed order, per server the download phase and then the upload phase;  *)
(* after a download that failed for lack of connectivity the upload is     *)
(* skipped and the result marks both as unavailable.                       *)

DownloadPhase ==
    /\ pc = "download"
    /\ queue # <<>>
    /\ LET s == Head(queue)
           ph == IF SpeedTestOptions.download
                 THEN Measure(s, "download", worker_count)
                 ELSE Omitted(s, "download")
       IN /\ current' = ph
          /\ phases' = IF ph.outcome = "omitted" THEN phases ELSE Append(phases, ph)
    /\ pc' = "upload"
    /\ UNCHANGED <<args, remote, down, error, fetchLog, server_list, printed,
                   pingLog, rankCalls, results, fastest_domain, fastest_servers,
                   speedLog, worker_count, queue, report>>

UploadPhase ==
    /\ pc = "upload"
    /\ LET s == Head(queue)
           ph == IF current.outcome = "ConnectivityError" THEN Skipped(s, "upload")
                 ELSE IF SpeedTestOptions.upload
                 THEN Measure(s, "upload", worker_count)
                 ELSE Omitted(s, "upload")
       IN /\ phases' = IF ph.outcome = "omitted" THEN phases ELSE Append(phases, ph)
          /\ report' = Append(report, [id |-> s.id, download |-> Entry(current),
                                       upload |-> Entry(ph)])
    /\ queue' = Tail(queue)
    /\ current' = NoPhase
    /\ pc' = "download"
    /\ UNCHANGED <<args, remote, down, error, fetchLog, server_list, printed,
                   pingLog, rankCalls, results, fastest_domain, fastest_servers,
                   speedLog, worker_count>>

\* do_speed_test returns; only the ping branch keeps (and logs) what it returns
SpeedTestReturn ==
    /\ pc = "download"
    /\ queue = <<>>
    /\ results' = IF pingLog # <<>> THEN report ELSE results
    /\ pc' = "done"
    /\ UNCHANGED <<args, remote, down, error, fetchLog, server_list, printed,
                   pingLog, rankCalls, fastest_domain, fastest_servers, speedLog,
                   worker_count, queue, current, phases, report>>

Next ==
    \/ FetchServers
    \/ RetryFetch
    \/ PrintServer
    \/ ListReturn
    \/ TestAllowed
    \/ Ping
    \/ Rank
    \/ SelectFastest
    \/ TestFastest
    \/ DownloadPhase
    \/ UploadPhase
    \/ SpeedTestReturn

Spec == Init /\ [][Next]_vars

Terminated == pc \in {"done", "crashed"}

-----------------------------------------------------------------------------
(* The claims.                                                             *)

AllowGiven == args.server_id_allow_list # {}
ListMode == args.show_server_list
PingMode == ~ListMode /\ ~AllowGiven

\* C1: with a non-empty allow-list the run never calls the prober or the
\* ranker, and the speed test is called, once, with exactly the retrieved
\* server list: nothing added, dropped or reordered.
C1_AllowListSkipsPing ==
    AllowGiven =>
        /\ pingLog = <<>>
        /\ rankCalls = 0
        /\ Len(speedLog) <= 1
        /\ speedLog # <<>> => speedLog[1] = server_list
        /\ (pc = "done" /\ ~ListMode) => Len(speedLog) = 1

C1_Witness ==
    /\ AllowGiven
    /\ pc = "done"
    /\ Len(speedLog) = 1
    /\ Len(speedLog[1]) = 2
    /\ Len(remote) = 3

\* C2 (as claimed): without an allow-list every candidate's host is probed
\* and the ranking is used; a run whose ranking is empty ends in a dedicated
\* "no reachable server" error, without any speed test.
C2_NoReachableServerError ==
    PingMode =>
        /\ pingLog # <<>> => pingLog[1] = PingHosts(server_list)
        /\ (pc = "crashed" /\ rankCalls = 1) =>
               /\ error = "NoReachableServer"
               /\ speedLog = <<>>

\* C3 (as claimed): with both an allow-list and a deny-list the run fails
\* with a ConfigurationError before the server list is retrieved, and
\* nothing is pinged or measured.
C3_AllowDenyRejected ==
    (AllowGiven /\ args.server_id_deny_list # {}) =>
        /\ fetchLog = <<>>
        /\ pingLog = <<>>
        /\ speedLog = <<>>
        /\ phases = <<>>
        /\ Terminated => error = "ConfigurationError"

\* C4 (as claimed): per server the download phase comes before the upload
\* phase, and a direction disabled by --no-download or --no-upload is not
\* measured and is omitted from the result.
C4_DisabledDirectionOmitted ==
    /\ \A i \in 1..Len(phases) :
           phases[i].direction = "upload" =>
               /\ i > 1
               /\ phases[i - 1].direction = "download"
               /\ phases[i - 1].id = phases[i].id
    /\ args.no_download =>
           /\ \A i \in 1..Len(phases) : phases[i].direction # "download"
           /\ \A i \in 1..Len(report) : report[i].download.status = "omitted"
    /\ args.no_upload =>
           /\ \A i \in 1..Len(phases) : phases[i].direction # "upload"
           /\ \A i \in 1..Len(report) : report[i].upload.status = "omitted"

\* the place of a host's first server in the candidate list
FirstIndex(hosts, h) ==
    CHOOSE i \in 1..Len(hosts) : hosts[i] = h /\ \A j \in 1..(i - 1) : hosts[j] # h

\* rtt is the least successful round trip time of the samples
LeastSuccessful(samples, rtt) ==
    /\ \E i \in 1..Len(samples) : samples[i].ok /\ samples[i].rtt = rtt
    /\ \A i \in 1..Len(samples) : samples[i].ok => rtt <= samples[i].rtt

\* ranked lists exactly the probed hosts with a successful sample, each once,
\* by ascending least round trip time, equal ones in candidate order
RankedProperly(probed, ranked, hosts) ==
    /\ \A k \in 1..Len(probed) :
           Cardinality({i \in 1..Len(ranked) : ranked[i].domain = probed[k].domain})
               = IF AllFailed(probed[k].samples) THEN 0 ELSE 1
    /\ \A i \in 1..Len(ranked) :
           \E k \in 1..Len(probed) :
               /\ probed[k].domain = ranked[i].domain
               /\ LeastSuccessful(probed[k].samples, ranked[i].rtt)
    /\ \A i, j \in 1..Len(ranked) :
           i < j =>
               \/ ranked[i].rtt < ranked[j].rtt
               \/ /\ ranked[i].rtt = ranked[j].rtt
                  /\ FirstIndex(hosts, ranked[i].domain) < FirstIndex(hosts, ranked[j].domain)

\* domain is the ranking's lowest-latency host, the first-listed of several
BestFirstListed(ranked, domain, hosts) ==
    \E i \in 1..Len(ranked) :
        /\ ranked[i].domain = domain
        /\ \A j \in 1..Len(ranked) :
               j # i =>
                   \/ ranked[i].rtt < ranked[j].rtt
                   \/ /\ ranked[i].rtt = ranked[j].rtt
                      /\ FirstIndex(hosts, domain) < FirstIndex(hosts, ranked[j].domain)

C7_BoundedSingleRetry ==
    /\ Len(fetchLog) <= 2
    /\ fetchLog # <<>> =>
           /\ ~fetchLog[1].call.retry
           /\ fetchLog[1].call.force_https = args.force_https
    /\ Len(fetchLog) = 2 =>
           /\ fetchLog[1].outcome = "HttpError"
           /\ fetchLog[2].call.retry
           /\ fetchLog[2].call.force_https = fetchLog[1].call.force_https
           /\ fetchLog[2].call.filters = fetchLog[1].call.filters
    /\ (Len(fetchLog) = 2 /\ fetchLog[2].outcome # "ok") =>
           /\ pc = "crashed"
           /\ error = fetchLog[2].outcome
           /\ pingLog = <<>>
           /\ rankCalls = 0
           /\ speedLog = <<>>
           /\ phases = <<>>

C7_Witness ==
    /\ Len(fetchLog) = 2
    /\ fetchLog[2].outcome = "HttpError"
    /\ fetchLog[2].call.force_https
    /\ fetchLog[2].call.filters.server_allow_list # {}
    /\ pc = "crashed"

C9_ListModeOnlyLists ==
    ListMode =>
        /\ \A i \in 1..Len(fetchLog) : fetchLog[i].call.filters = NoFilters
        /\ pingLog = <<>>
        /\ rankCalls = 0
        /\ speedLog = <<>>
        /\ phases = <<>>
        /\ Len(printed) <= Len(server_list)
        /\ \A i \in 1..Len(printed) :
               /\ printed[i].id = server_list[i].id
               /\ printed[i].server = server_list[i].server
        /\ pc = "done" =>
               /\ Len(printed) = Len(server_list)
               /\ server_list = remote

C9_Witness ==
    /\ ListMode
    /\ args.server_id_allow_list # {}
    /\ args.server_id_deny_list # {}
    /\ pc = "done"
    /\ Len(printed) = 3

\* C10: in ping-selected mode the speed test is called once, after the one
\* probe and the one ranking, with exactly the candidates whose network
\* location is the top-ranked domain, in candidate-list order, and that list
\* is not empty.
C10_FastestServersTested ==
    PingMode =>
        /\ Len(speedLog) <= 1
        /\ pc \in {"selected", "download", "upload"} =>
               /\ results # <<>>
               /\ fastest_domain = results[1].domain
               /\ fastest_servers # <<>>
        /\ speedLog # <<>> =>
               /\ Len(pingLog) = 1
               /\ rankCalls = 1
               /\ speedLog[1] # <<>>
               /\ IsSubsequence(speedLog[1], server_list)
               /\ \A i \in 1..Len(server_list) :
                      (server_list[i] \in Range(speedLog[1]))
                          <=> (Netloc(server_list[i].server) = fastest_domain)
        /\ pc = "done" => Len(speedLog) = 1

\* two of three candidates share the best host
C10_Witness ==
    /\ PingMode
    /\ pc = "done"
    /\ Len(server_list) = 3
    /\ Len(speedLog) = 1
    /\ Len(speedLog[1]) = 2
    /\ speedLog[1][1].server # speedLog[1][2].server

====
